----------------------------- MODULE Spec2Model -----------------------------
(***************************************************************************)
(* Model of internal/resolve/resolve.go: the version resolution of a       *)
(* plugin in a directory (Version) and the relaxed matching against the    *)
(* installed versions (FindBestMatchingVersion).                           *)
(*                                                                         *)
(* Go strings are sequences of one-character strings, so that Split,       *)
(* TrimSpace, ToUpper, HasPrefix and Compare are computed as the library   *)
(* computes them.  The external collaborators (filesystem, config, plugin  *)
(* callbacks, pin-file parser, installs provider) answer with outcomes     *)
(* drawn from small sets.                                                  *)
(***************************************************************************)
EXTENDS Integers, Sequences, FiniteSets, TLC

VARIABLES
    env,          \* the process environment: variable name -> value
    conf,         \* config.Config: pin-file name and the legacy flag's answer
    plugin,       \* plugins.Plugin: Name and the LegacyFilenames answer
    homeDir,      \* the answer of os.UserHomeDir: [dir, err]
    directory,    \* Version: the parameter / loop variable directory
    versions,     \* Version: named result versions (a ToolVersions)
    found,        \* Version: named result found
    err,          \* Version: named result err
    pc,           \* Version: position in the function
    probes,       \* history: the findVersionsInDir calls made, in order
    lastTags,     \* history: what happened inside the latest findVersionsInDir
    hit,          \* history: pin-file hits of the upward walk, in order
    installed,    \* the answer of installs.Installed: [list, err]
    requested,    \* FindBestMatchingVersion: the parameter versions
    best,         \* FindBestMatchingVersion: its outcome [kind, value]
    bpc           \* FindBestMatchingVersion: position

vars == <<env, conf, plugin, homeDir, directory, versions, found, err, pc,
          probes, lastTags, hit, installed, requested, best, bpc>>

-----------------------------------------------------------------------------
(* Bounds of the model *)

\* greatest number of path components of the start directory
MaxDepth == 2
\* greatest number of installed versions
MaxInstalled == 2
\* greatest number of requested versions
MaxRequested == 2

-----------------------------------------------------------------------------
(* Go strings *)

\* the bytes that occur, in increasing byte order
Alphabet ==
    << "\t", "\n", " ", "*", "-", ".",
       "0", "1", "2", "3", "4", "5", "6", "7", "8", "9",
       "A", "B", "C", "D", "E", "F", "G", "H", "I", "J", "K", "L", "M",
       "N", "O", "P", "Q", "R", "S", "T", "U", "V", "W", "X", "Y", "Z",
       "_",
       "a", "b", "c", "d", "e", "f", "g", "h", "i", "j", "k", "l", "m",
       "n", "o", "p", "q", "r", "s", "t", "u", "v", "w", "x", "y", "z" >>

Ord(c) == CHOOSE i \in 1..Len(Alphabet) : Alphabet[i] = c

Min2(a, b) == IF a <= b THEN a ELSE b

\* strings.Compare: -1, 0 or 1, byte-wise lexicographic
StrCompare(a, b) ==
    LET n == Min2(Len(a), Len(b))
        diff == {i \in 1..n : a[i] # b[i]}
    IN  IF diff = {}
        THEN IF Len(a) < Len(b) THEN -1 ELSE IF Len(a) > Len(b) THEN 1 ELSE 0
        ELSE LET i == CHOOSE j \in diff : \A k \in diff : j <= k
             IN  IF Ord(a[i]) < Ord(b[i]) THEN -1 ELSE 1

\* strings.HasPrefix
HasPrefix(s, prefix) ==
    /\ Len(s) >= Len(prefix)
    /\ SubSeq(s, 1, Len(prefix)) = prefix

\* strings.Split(s, sep) for a one-byte separator: always at least one piece
RECURSIVE SplitFrom(_, _, _, _)
SplitFrom(s, sep, i, cur) ==
    IF i > Len(s) THEN <<cur>>
    ELSE IF s[i] = sep THEN <<cur>> \o SplitFrom(s, sep, i + 1, <<>>)
    ELSE SplitFrom(s, sep, i + 1, Append(cur, s[i]))

Split(s, sep) == SplitFrom(s, sep, 1, <<>>)

\* strings.Join(parts, sep)
RECURSIVE Join(_, _)
Join(parts, sep) ==
    IF Len(parts) = 0 THEN <<>>
    ELSE IF Len(parts) = 1 THEN parts[1]
    ELSE parts[1] \o sep \o Join(Tail(parts), sep)

IsSpace(c) == c \in {" ", "\t", "\n"}

\* strings.TrimSpace
TrimSpace(s) ==
    LET keep == {i \in 1..Len(s) : ~IsSpace(s[i])}
    IN  IF keep = {} THEN <<>>
        ELSE LET lo == CHOOSE i \in keep : \A k \in keep : i <= k
                 hi == CHOOSE i \in keep : \A k \in keep : i >= k
             IN  SubSeq(s, lo, hi)

Lower == SubSeq(Alphabet, 44, 69)
Upper == SubSeq(Alphabet, 17, 42)

\* strings.ToUpper
ToUpper(s) ==
    [i \in 1..Len(s) |->
        IF \E k \in 1..Len(Lower) : Lower[k] = s[i]
        THEN Upper[CHOOSE k \in 1..Len(Lower) : Lower[k] = s[i]]
        ELSE s[i]]

\* slices.Contains
Contains(list, x) == \E i \in 1..Len(list) : list[i] = x

\* os.Getenv: the empty string for a variable that is not set
Getenv(name) == IF name \in DOMAIN env THEN env[name] ELSE <<>>

\* path.Dir of a clean path: all but the last element; the root and "." are
\* their own parents
PathDir(p) ==
    LET slashes == {i \in 1..Len(p) : p[i] = "/"}
    IN  IF slashes = {} THEN <<".">>
        ELSE LET last == CHOOSE i \in slashes : \A k \in slashes : i >= k
             IN  IF last = 1 THEN <<"/">> ELSE SubSeq(p, 1, last - 1)

Nil == "nil"


-----------------------------------------------------------------------------
(* Values the collaborators work with *)

\* conf.DefaultToolVersionsFilename: ".tool-versions"
ToolVersionsName == <<".", "t", "o", "o", "l", "-", "v", "e", "r", "s", "i", "o", "n", "s">>
\* legacy file names a plugin may list: ".nvmrc", ".node-version"
Nvmrc == <<".", "n", "v", "m", "r", "c">>
NodeVersion == <<".", "n", "o", "d", "e", "-", "v", "e", "r", "s", "i", "o", "n">>
LegacyUniverse == {Nvmrc, NodeVersion}

Nodejs == <<"n", "o", "d", "e", "j", "s">>
Golang == <<"g", "o", "l", "a", "n", "g">>
Star == <<"*">>
AsdfNodejsVersion ==
    <<"A", "S", "D", "F", "_", "N", "O", "D", "E", "J", "S", "_", "V", "E", "R", "S", "I", "O", "N">>
\* the same name with the plugin name left in lower case: no override
AsdfNodejsVersionLower ==
    <<"A", "S", "D", "F", "_", "n", "o", "d", "e", "j", "s", "_", "V", "E", "R", "S", "I", "O", "N">>
AsdfIgnorePatch ==
    <<"A", "S", "D", "F", "_", "I", "G", "N", "O", "R", "E", "_", "P", "A", "T", "C", "H">>
AsdfIgnoreMinor ==
    <<"A", "S", "D", "F", "_", "I", "G", "N", "O", "R", "E", "_", "M", "I", "N", "O", "R">>
AsdfIgnoreVersion ==
    <<"A", "S", "D", "F", "_", "I", "G", "N", "O", "R", "E", "_", "V", "E", "R", "S", "I", "O", "N">>
EnvNames ==
    {AsdfNodejsVersion, AsdfNodejsVersionLower, AsdfIgnorePatch, AsdfIgnoreMinor,
     AsdfIgnoreVersion}

V16 == <<"1", "6", ".", "0", ".", "0">>
V18 == <<"1", "8", ".", "0", ".", "0">>

\* the zero value of ToolVersions
ZeroToolVersions == [Versions |-> <<>>, Directory |-> <<>>, Source |-> <<>>]

\* what os.Stat and FindToolVersions answer for a directory's pin file
PinStates ==
    {[stat |-> s, versions |-> <<>>, found |-> FALSE, err |-> Nil] :
        s \in {"ErrNotExist", "ErrPermission"}}
    \cup
    {[stat |-> Nil, versions |-> IF f THEN <<V18>> ELSE <<>>, found |-> f, err |-> e] :
        f \in BOOLEAN, e \in {Nil, "ErrParse"}}

\* what os.Stat and ParseLegacyVersionFile answer for one legacy file
LegacyStates ==
    {[stat |-> s, tokens |-> <<>>, err |-> Nil] : s \in {"ErrNotExist", "ErrPermission"}}
    \cup
    {[stat |-> Nil, tokens |-> t, err |-> e] :
        t \in {<<>>, << <<>> >>, <<V16>>}, e \in {Nil, "ErrLegacyParse"}}

\* the files of one directory, as the probes of it find them
DirWorld == [pin : PinStates, legacy : [LegacyUniverse -> LegacyStates]]

Call(op, file) == [op |-> op, file |-> file]

-----------------------------------------------------------------------------
(* resolve.go *)

\* variableVersionName
variableVersionName(toolName) ==
    <<"A", "S", "D", "F", "_">> \o ToUpper(toolName) \o <<"_", "V", "E", "R", "S", "I", "O", "N">>

\* parseVersion: split on single spaces, trim, drop the empty tokens
RECURSIVE KeepTokens(_)
KeepTokens(pieces) ==
    IF Len(pieces) = 0 THEN <<>>
    ELSE LET version == TrimSpace(Head(pieces))
         IN  IF Len(version) > 0
             THEN <<version>> \o KeepTokens(Tail(pieces))
             ELSE KeepTokens(Tail(pieces))

parseVersion(rawVersions) == KeepTokens(Split(rawVersions, " "))

\* findVersionsInEnv reading the variable named without upper-casing
findVersionsInEnv_nameAsIs(pluginName) ==
    LET envVariableName ==
            <<"A", "S", "D", "F", "_">> \o pluginName
                \o <<"_", "V", "E", "R", "S", "I", "O", "N">>
        versionString == Getenv(envVariableName)
    IN  IF versionString = <<>>
        THEN [versions |-> <<>>, name |-> envVariableName, found |-> FALSE]
        ELSE [versions |-> parseVersion(versionString), name |-> envVariableName,
              found |-> TRUE]

\* findVersionsInEnv
findVersionsInEnv(pluginName) ==
    LET envVariableName == variableVersionName(pluginName)
        versionString == Getenv(envVariableName)
    IN  IF versionString = <<>>
        THEN [versions |-> <<>>, name |-> envVariableName, found |-> FALSE]
        ELSE [versions |-> parseVersion(versionString), name |-> envVariableName,
              found |-> TRUE]

\* the loop without the normalisation of a degenerate token list
RECURSIVE LegacyLoop_noNormalisation(_, _, _, _)
LegacyLoop_noNormalisation(legacyFileNames, i, dir, w) ==
    IF i > Len(legacyFileNames)
    THEN [versions |-> ZeroToolVersions, found |-> FALSE, err |-> Nil, calls |-> <<>>]
    ELSE LET filename == legacyFileNames[i]
             f == w.legacy[filename]
         IN  IF f.stat = Nil
             THEN [versions |-> [Versions |-> f.tokens, Source |-> filename,
                                 Directory |-> dir],
                   found |-> (f.err = Nil), err |-> f.err,
                   calls |-> <<Call("Stat", filename),
                               Call("ParseLegacyVersionFile", filename)>>]
             ELSE LET rest == LegacyLoop_noNormalisation(legacyFileNames, i + 1, dir, w)
                  IN  [rest EXCEPT !.calls = <<Call("Stat", filename)>> \o @]

\* the loop trying the next candidate after a degenerate token list
RECURSIVE LegacyLoop_triesNext(_, _, _, _)
LegacyLoop_triesNext(legacyFileNames, i, dir, w) ==
    IF i > Len(legacyFileNames)
    THEN [versions |-> ZeroToolVersions, found |-> FALSE, err |-> Nil, calls |-> <<>>]
    ELSE LET filename == legacyFileNames[i]
             f == w.legacy[filename]
         IN  IF f.stat = Nil
             THEN IF Len(f.tokens) = 0 \/ (Len(f.tokens) = 1 /\ f.tokens[1] = <<>>)
                  THEN LET rest == LegacyLoop_triesNext(legacyFileNames, i + 1, dir, w)
                       IN  [rest EXCEPT !.calls =
                               <<Call("Stat", filename),
                                 Call("ParseLegacyVersionFile", filename)>> \o @]
                  ELSE [versions |-> [Versions |-> f.tokens, Source |-> filename,
                                      Directory |-> dir],
                        found |-> (f.err = Nil), err |-> f.err,
                        calls |-> <<Call("Stat", filename),
                                    Call("ParseLegacyVersionFile", filename)>>]
             ELSE LET rest == LegacyLoop_triesNext(legacyFileNames, i + 1, dir, w)
                  IN  [rest EXCEPT !.calls = <<Call("Stat", filename)>> \o @]

\* the loop of findVersionsInLegacyFile, from candidate i on
RECURSIVE LegacyLoop(_, _, _, _)
LegacyLoop(legacyFileNames, i, dir, w) ==
    IF i > Len(legacyFileNames)
    THEN [versions |-> ZeroToolVersions, found |-> FALSE, err |-> Nil, calls |-> <<>>]
    ELSE LET filename == legacyFileNames[i]
             f == w.legacy[filename]
         IN  IF f.stat = Nil
             THEN IF Len(f.tokens) = 0 \/ (Len(f.tokens) = 1 /\ f.tokens[1] = <<>>)
                  THEN [versions |-> ZeroToolVersions, found |-> FALSE, err |-> Nil,
                        calls |-> <<Call("Stat", filename),
                                    Call("ParseLegacyVersionFile", filename)>>]
                  ELSE [versions |-> [Versions |-> f.tokens, Source |-> filename,
                                      Directory |-> dir],
                        found |-> (f.err = Nil), err |-> f.err,
                        calls |-> <<Call("Stat", filename),
                                    Call("ParseLegacyVersionFile", filename)>>]
             ELSE LET rest == LegacyLoop(legacyFileNames, i + 1, dir, w)
                  IN  [rest EXCEPT !.calls = <<Call("Stat", filename)>> \o @]

\* findVersionsInLegacyFile
findVersionsInLegacyFile(plug, dir, w) ==
    LET names == plug.LegacyFilenames
    IN  IF names.err # Nil
        THEN [versions |-> ZeroToolVersions, found |-> FALSE, err |-> names.err,
              calls |-> <<Call("LegacyFilenames", <<>>)>>]
        ELSE LET r == LegacyLoop(names.names, 1, dir, w)
             IN  [r EXCEPT !.calls = <<Call("LegacyFilenames", <<>>)>> \o @]

\* findVersionsInDir going on to the legacy files after a parser error
findVersionsInDir_parseErrorIgnored(cfg, plug, dir, w) ==
    LET pinName == cfg.DefaultToolVersionsFilename
        statCall == <<Call("Stat", pinName)>>
        parseCall == <<Call("FindToolVersions", pinName)>>
        flagCall == <<Call("LegacyVersionFile", <<>>)>>
        legacyFiles == cfg.LegacyVersionFile
    IN  IF w.pin.stat = Nil /\ w.pin.found
        THEN [versions |-> [Versions |-> w.pin.versions, Source |-> pinName,
                            Directory |-> dir],
              found |-> w.pin.found, err |-> w.pin.err,
              calls |-> statCall \o parseCall]
        ELSE LET before == IF w.pin.stat = Nil THEN statCall \o parseCall \o flagCall
                           ELSE statCall \o flagCall
             IN  IF legacyFiles.err # Nil
                 THEN [versions |-> ZeroToolVersions, found |-> FALSE,
                       err |-> legacyFiles.err, calls |-> before]
                 ELSE IF legacyFiles.value
                 THEN LET l == findVersionsInLegacyFile(plug, dir, w)
                      IN  IF l.found \/ l.err # Nil
                          THEN [l EXCEPT !.calls = before \o @]
                          ELSE [versions |-> ZeroToolVersions, found |-> FALSE,
                                err |-> Nil, calls |-> before \o l.calls]
                 ELSE [versions |-> ZeroToolVersions, found |-> FALSE, err |-> Nil,
                       calls |-> before]

\* findVersionsInDir running the legacy prober whatever the flag says
findVersionsInDir_flagIgnored(cfg, plug, dir, w) ==
    LET pinName == cfg.DefaultToolVersionsFilename
        statCall == <<Call("Stat", pinName)>>
        parseCall == <<Call("FindToolVersions", pinName)>>
        flagCall == <<Call("LegacyVersionFile", <<>>)>>
        legacyFiles == cfg.LegacyVersionFile
    IN  IF w.pin.stat = Nil /\ (w.pin.found \/ w.pin.err # Nil)
        THEN [versions |-> [Versions |-> w.pin.versions, Source |-> pinName,
                            Directory |-> dir],
              found |-> w.pin.found, err |-> w.pin.err,
              calls |-> statCall \o parseCall]
        ELSE LET before == IF w.pin.stat = Nil THEN statCall \o parseCall \o flagCall
                           ELSE statCall \o flagCall
             IN  IF legacyFiles.err # Nil
                 THEN [versions |-> ZeroToolVersions, found |-> FALSE,
                       err |-> legacyFiles.err, calls |-> before]
                 ELSE IF TRUE
                 THEN LET l == findVersionsInLegacyFile(plug, dir, w)
                      IN  IF l.found \/ l.err # Nil
                          THEN [l EXCEPT !.calls = before \o @]
                          ELSE [versions |-> ZeroToolVersions, found |-> FALSE,
                                err |-> Nil, calls |-> before \o l.calls]
                 ELSE [versions |-> ZeroToolVersions, found |-> FALSE, err |-> Nil,
                       calls |-> before]

\* findVersionsInDir
findVersionsInDir(cfg, plug, dir, w) ==
    LET pinName == cfg.DefaultToolVersionsFilename
        statCall == <<Call("Stat", pinName)>>
        parseCall == <<Call("FindToolVersions", pinName)>>
        flagCall == <<Call("LegacyVersionFile", <<>>)>>
        legacyFiles == cfg.LegacyVersionFile
    IN  IF w.pin.stat = Nil /\ (w.pin.found \/ w.pin.err # Nil)
        THEN [versions |-> [Versions |-> w.pin.versions, Source |-> pinName,
                            Directory |-> dir],
              found |-> w.pin.found, err |-> w.pin.err,
              calls |-> statCall \o parseCall]
        ELSE LET before == IF w.pin.stat = Nil THEN statCall \o parseCall \o flagCall
                           ELSE statCall \o flagCall
             IN  IF legacyFiles.err # Nil
                 THEN [versions |-> ZeroToolVersions, found |-> FALSE,
                       err |-> legacyFiles.err, calls |-> before]
                 ELSE IF legacyFiles.value
                 THEN LET l == findVersionsInLegacyFile(plug, dir, w)
                      IN  IF l.found \/ l.err # Nil
                          THEN [l EXCEPT !.calls = before \o @]
                          ELSE [versions |-> ZeroToolVersions, found |-> FALSE,
                                err |-> Nil, calls |-> before \o l.calls]
                 ELSE [versions |-> ZeroToolVersions, found |-> FALSE, err |-> Nil,
                       calls |-> before]

-----------------------------------------------------------------------------
(* History of a findVersionsInDir call: what the calls it made ran into *)

Made(r, op, file) == \E i \in 1..Len(r.calls) : r.calls[i] = Call(op, file)

Tag(name, cond) == IF cond THEN {name} ELSE {}

Tags(cfg, plug, w, r) ==
    Tag("pinHit",
        Made(r, "FindToolVersions", cfg.DefaultToolVersionsFilename)
        /\ w.pin.found /\ w.pin.err = Nil)
    \cup
    Tag("statErr",
        \/ Made(r, "Stat", cfg.DefaultToolVersionsFilename) /\ w.pin.stat = "ErrPermission"
        \/ \E f \in LegacyUniverse :
              Made(r, "Stat", f) /\ w.legacy[f].stat = "ErrPermission")
    \cup
    Tag("namesErr", Made(r, "LegacyFilenames", <<>>) /\ plug.LegacyFilenames.err # Nil)
    \cup
    Tag("legacyParseErr",
        \E f \in LegacyUniverse :
            Made(r, "ParseLegacyVersionFile", f) /\ w.legacy[f].err # Nil)
    \cup
    Tag("degenerate",
        \E f \in LegacyUniverse :
            /\ Made(r, "ParseLegacyVersionFile", f)
            /\ w.legacy[f].tokens \in {<<>>, << <<>> >>})
    \cup
    Tag("flagQueried", Made(r, "LegacyVersionFile", <<>>))
    \cup
    Tag("callback",
        \/ Made(r, "LegacyFilenames", <<>>)
        \/ \E f \in LegacyUniverse : Made(r, "ParseLegacyVersionFile", f))
    \cup
    Tag("pinParseErr",
        Made(r, "FindToolVersions", cfg.DefaultToolVersionsFilename) /\ w.pin.err # Nil)
    \cup
    Tag("pinSilent",
        Made(r, "FindToolVersions", cfg.DefaultToolVersionsFilename)
        /\ ~w.pin.found /\ w.pin.err = Nil)
    \cup
    Tag("pinAbsent", Made(r, "Stat", cfg.DefaultToolVersionsFilename) /\ w.pin.stat # Nil)
    \cup
    Tag("flagErr", Made(r, "LegacyVersionFile", <<>>) /\ cfg.LegacyVersionFile.err # Nil)
    \cup
    Tag("legacyStat", \E f \in LegacyUniverse : Made(r, "Stat", f))

Probe(dir, phase, r) == [dir |-> dir, phase |-> phase, found |-> r.found, err |-> r.err]

-----------------------------------------------------------------------------
(* Version, step by step *)

\* start directories: "/", "/a", "/a/a", ... and the relative "a"
RECURSIVE Deep(_)
Deep(n) == IF n = 0 THEN <<>> ELSE <<"/", "a">> \o Deep(n - 1)

StartDirs == {<<"/">>, <<"a">>} \cup {Deep(n) : n \in 1..MaxDepth}

\* os.UserHomeDir: fails, or a directory off or on the walked chain
HomeDirs ==
    {[dir |-> <<>>, err |-> "ErrHome"],
     [dir |-> <<"/", "h">>, err |-> Nil],
     [dir |-> <<"/", "a">>, err |-> Nil]}

\* no override; one under the lower-case name only; two tokens; only a space
VersionEnvs ==
    {[n \in EnvNames |->
        IF n = AsdfNodejsVersion THEN v[1]
        ELSE IF n = AsdfNodejsVersionLower THEN v[2]
        ELSE <<>>] :
        v \in {<< <<>>, <<>> >>, << <<>>, V18 >>,
               << V16 \o <<" ">> \o V18, <<>> >>, << <<" ">>, <<>> >>}}

Configs ==
    {[DefaultToolVersionsFilename |-> ToolVersionsName, LegacyVersionFile |-> a] :
        a \in {[value |-> TRUE, err |-> Nil], [value |-> FALSE, err |-> Nil],
               [value |-> FALSE, err |-> "ErrConfig"]}}

Plugins ==
    {[Name |-> Nodejs, LegacyFilenames |-> a] :
        a \in {[names |-> <<>>, err |-> "ErrLegacyFilenames"],
               [names |-> <<>>, err |-> Nil],
               [names |-> <<Nvmrc>>, err |-> Nil],
               [names |-> <<Nvmrc, NodeVersion>>, err |-> Nil]}}
    \cup
    {[Name |-> Golang, LegacyFilenames |-> [names |-> <<NodeVersion>>, err |-> Nil]]}

BestIdle ==
    /\ installed = [list |-> <<>>, err |-> Nil]
    /\ requested = <<>>
    /\ best = [kind |-> "none", value |-> <<>>]
    /\ bpc = "idle"

Init ==
    /\ env \in VersionEnvs
    /\ conf \in Configs
    /\ plugin \in Plugins
    /\ homeDir \in HomeDirs
    /\ directory \in StartDirs
    /\ versions = ZeroToolVersions
    /\ found = FALSE
    /\ err = Nil
    /\ pc = "env"
    /\ probes = <<>>
    /\ lastTags = {}
    /\ hit = <<>>
    /\ BestIdle

bestVars == <<installed, requested, best, bpc>>
worldVars == <<env, conf, plugin, homeDir>>

\* lines 29-32: the environment override, else enter the loop
VersionEnv ==
    /\ pc = "env"
    /\ LET e == findVersionsInEnv(plugin.Name)
       IN  IF e.found
           THEN /\ versions' = [Versions |-> e.versions, Directory |-> <<>>,
                                Source |-> e.name]
                /\ found' = TRUE
                /\ err' = Nil
                /\ pc' = "done"
           ELSE /\ pc' = "probe"
                /\ UNCHANGED <<versions, found, err>>
    /\ UNCHANGED <<worldVars, directory, probes, lastTags, hit, bestVars>>

\* lines 35-38: probe the current directory; an error returns at once
WalkProbe ==
    /\ pc = "probe"
    /\ \E w \in DirWorld :
        LET r == findVersionsInDir(conf, plugin, directory, w)
            tags == Tags(conf, plugin, w, r)
        IN  /\ versions' = r.versions
            /\ err' = r.err
            /\ found' = IF r.err # Nil THEN FALSE ELSE r.found
            /\ pc' = IF r.err # Nil THEN "done" ELSE "ascend"
            /\ probes' = Append(probes, Probe(directory, "walk", r))
            /\ lastTags' = tags
            /\ hit' = IF "pinHit" \in tags
                      THEN Append(hit, [dir |-> directory, versions |-> r.versions])
                      ELSE hit
    /\ UNCHANGED <<worldVars, directory, bestVars>>

\* the loop going round without replacing directory by its parent
Ascend_staysPut ==
    /\ pc = "ascend"
    /\ PathDir(directory) # directory
    /\ pc' = IF found THEN "done" ELSE "probe"
    /\ UNCHANGED <<worldVars, directory, versions, found, err, probes, lastTags, hit,
                   bestVars>>

\* lines 40-43, 54 and the loop condition: go to the parent directory
Ascend ==
    /\ pc = "ascend"
    /\ PathDir(directory) # directory
    /\ directory' = PathDir(directory)
    /\ pc' = IF found THEN "done" ELSE "probe"
    /\ UNCHANGED <<worldVars, versions, found, err, probes, lastTags, hit, bestVars>>

\* at the root, a home directory that cannot be determined is reported
RootReached_homeErrorReturned ==
    /\ pc = "ascend"
    /\ PathDir(directory) = directory
    /\ pc' = IF homeDir.err # Nil THEN "done" ELSE "home"
    /\ err' = homeDir.err
    /\ UNCHANGED <<worldVars, directory, versions, found, probes, lastTags, hit,
                   bestVars>>

\* lines 43-49: at the root, ask for the home directory
RootReached ==
    /\ pc = "ascend"
    /\ PathDir(directory) = directory
    /\ pc' = IF homeDir.err # Nil THEN "done" ELSE "home"
    /\ UNCHANGED <<worldVars, directory, versions, found, err, probes, lastTags, hit,
                   bestVars>>

\* lines 51-52 and 57: probe the home directory and return what it gives
HomeProbe ==
    /\ pc = "home"
    /\ \E w \in DirWorld :
        LET r == findVersionsInDir(conf, plugin, homeDir.dir, w)
        IN  /\ versions' = r.versions
            /\ found' = r.found
            /\ err' = r.err
            /\ pc' = "done"
            /\ probes' = Append(probes, Probe(homeDir.dir, "home", r))
            /\ lastTags' = Tags(conf, plugin, w, r)
    /\ UNCHANGED <<worldVars, directory, hit, bestVars>>

Next == VersionEnv \/ WalkProbe \/ Ascend \/ RootReached \/ HomeProbe

Spec == Init /\ [][Next]_vars

-----------------------------------------------------------------------------
(* FindBestMatchingVersion *)

\* slices.SortFunc with the comparison -strings.Compare(a, b): descending
RECURSIVE InsertDesc(_, _)
InsertDesc(x, sorted) ==
    IF Len(sorted) = 0 THEN <<x>>
    ELSE IF StrCompare(x, Head(sorted)) >= 0 THEN <<x>> \o sorted
    ELSE <<Head(sorted)>> \o InsertDesc(x, Tail(sorted))

\* the sort with the comparison not negated: ascending
RECURSIVE SortDesc_ascending(_)
SortDesc_ascending(list) ==
    IF Len(list) = 0 THEN <<>>
    ELSE LET rest == SortDesc_ascending(Tail(list))
             x == Head(list)
             below == {i \in 1..Len(rest) : StrCompare(rest[i], x) < 0}
         IN  SubSeq(rest, 1, Cardinality(below)) \o <<x>>
                 \o SubSeq(rest, Cardinality(below) + 1, Len(rest))

RECURSIVE SortDesc(_)
SortDesc(list) ==
    IF Len(list) = 0 THEN <<>> ELSE InsertDesc(Head(list), SortDesc(Tail(list)))

Return(value) == [kind |-> "return", value |-> value]
\* a run-time panic: an index or slice bound out of range
Panic == [kind |-> "panic", value |-> <<>>]

\* lines 81, 89, 97: the plugin's name or "*" is an entry of the list
Covers(ignoreList, name) == Contains(ignoreList, name) \/ Contains(ignoreList, Star)

\* lines 90-95: the candidate's major.minor is a prefix of a requested version
PatchMatch(version, reqs) ==
    LET majorMinor == Join(SubSeq(Split(version, "."), 1, 2), <<".">>)
    IN  \E k \in 1..Len(reqs) : HasPrefix(reqs[k], majorMinor)

\* lines 98-103: the candidate's major is a prefix of a requested version
MinorMatch(version, reqs) ==
    LET major == Split(version, ".")[1]
    IN  \E k \in 1..Len(reqs) : HasPrefix(reqs[k], major)

\* the scan returning the requested version that matched, not the candidate
RECURSIVE Scan_returnsRequested(_, _, _, _, _, _)
Scan_returnsRequested(availableVersions, i, reqs, ignorePatches, ignoreMinors, name) ==
    IF i > Len(availableVersions) THEN Return(<<>>)
    ELSE LET version == availableVersions[i]
             major == Split(version, ".")[1]
             hits == {k \in 1..Len(reqs) : HasPrefix(reqs[k], major)}
         IN  IF Covers(ignorePatches, name) /\ Len(Split(version, ".")) < 2
             THEN Panic
             ELSE IF Covers(ignorePatches, name) /\ PatchMatch(version, reqs)
             THEN Return(reqs[CHOOSE k \in hits : \A j \in hits : k <= j])
             ELSE IF Covers(ignoreMinors, name) /\ MinorMatch(version, reqs)
             THEN Return(reqs[CHOOSE k \in hits : \A j \in hits : k <= j])
             ELSE Scan_returnsRequested(availableVersions, i + 1, reqs, ignorePatches,
                                        ignoreMinors, name)

\* lines 88-106: the scan of the installed versions, from candidate i on
RECURSIVE Scan(_, _, _, _, _, _)
Scan(availableVersions, i, reqs, ignorePatches, ignoreMinors, name) ==
    IF i > Len(availableVersions) THEN Return(<<>>)
    ELSE LET version == availableVersions[i]
         IN  IF Covers(ignorePatches, name) /\ Len(Split(version, ".")) < 2
             THEN Panic
             ELSE IF Covers(ignorePatches, name) /\ PatchMatch(version, reqs)
             THEN Return(version)
             ELSE IF Covers(ignoreMinors, name) /\ MinorMatch(version, reqs)
             THEN Return(version)
             ELSE Scan(availableVersions, i + 1, reqs, ignorePatches, ignoreMinors, name)

FindBestMatchingVersion(plug, versionsArg) ==
    IF installed.err # Nil THEN Return(<<>>)
    ELSE LET ignorePatches == Split(Getenv(AsdfIgnorePatch), " ")
             ignoreMinors == Split(Getenv(AsdfIgnoreMinor), " ")
             ignoreVersions == Split(Getenv(AsdfIgnoreVersion), " ")
             availableVersions == SortDesc(installed.list)
         IN  IF Covers(ignoreVersions, plug.Name)
             THEN IF Len(availableVersions) = 0 THEN Panic
                  ELSE Return(availableVersions[1])
             ELSE IF Len(ignorePatches) = 0 /\ Len(ignoreMinors) = 0
             THEN Return(<<>>)
             ELSE Scan(availableVersions, 1, SortDesc(versionsArg), ignorePatches,
                       ignoreMinors, plug.Name)

\* sequences over S of length at most n
RECURSIVE SeqUpTo(_, _)
SeqUpTo(S, n) ==
    IF n = 0 THEN {<<>>}
    ELSE LET shorter == SeqUpTo(S, n - 1)
         IN  shorter \cup {Append(q, x) : q \in shorter, x \in S}

InstalledPool ==
    {<<"1", ".", "0", ".", "0">>, <<"2", ".", "0", ".", "0">>,
     <<"1", "4", ".", "2", ".", "1">>, <<"1", "4", ".", "3", ".", "0">>, <<"1", "8">>}
RequestedPool ==
    {<<"1", "4", ".", "3", ".", "5">>, <<"1", ".", "5", ".", "0">>,
     <<"1", "4", ".", "3", "0", ".", "1">>}

\* not set; "*"; a list of names
IgnoreValues == {<<>>, Star, Golang \o <<" ">> \o Nodejs}

BestEnvs ==
    {[n \in EnvNames |->
        IF n = AsdfIgnorePatch THEN v[1]
        ELSE IF n = AsdfIgnoreMinor THEN v[2]
        ELSE IF n = AsdfIgnoreVersion THEN v[3]
        ELSE <<>>] : v \in IgnoreValues \X IgnoreValues \X IgnoreValues}

\* a listed name, a name that is only a prefix of a listed one, the empty name
BestPlugins ==
    {[Name |-> n, LegacyFilenames |-> [names |-> <<>>, err |-> Nil]] :
        n \in {Nodejs, <<"g", "o">>, <<>>}}

InstalledAnswers ==
    {[list |-> l, err |-> Nil] : l \in SeqUpTo(InstalledPool, MaxInstalled)}
    \cup {[list |-> <<>>, err |-> "ErrInstalled"]}

VersionIdle ==
    /\ homeDir = [dir |-> <<>>, err |-> Nil]
    /\ directory = <<>>
    /\ versions = ZeroToolVersions
    /\ found = FALSE
    /\ err = Nil
    /\ pc = "idle"
    /\ probes = <<>>
    /\ lastTags = {}
    /\ hit = <<>>

InitBest ==
    /\ env \in BestEnvs
    /\ conf \in {c \in Configs : c.LegacyVersionFile.value}
    /\ plugin \in BestPlugins
    /\ installed \in InstalledAnswers
    /\ requested \in SeqUpTo(RequestedPool, MaxRequested)
    /\ best = [kind |-> "none", value |-> <<>>]
    /\ bpc = "call"
    /\ VersionIdle

\* lines 72-107: one call
CallBest ==
    /\ bpc = "call"
    /\ best' = FindBestMatchingVersion(plugin, requested)
    /\ bpc' = "done"
    /\ UNCHANGED <<worldVars, directory, versions, found, err, pc, probes, lastTags,
                   hit, installed, requested>>

NextBest == CallBest

SpecBest == InitBest /\ [][NextBest]_vars

-----------------------------------------------------------------------------
(* Properties of Version *)

OverrideSet == Getenv(variableVersionName(plugin.Name)) # <<>>

LastProbe == probes[Len(probes)]

WalkProbes == {i \in 1..Len(probes) : probes[i].phase = "walk"}
HomeProbes == {i \in 1..Len(probes) : probes[i].phase = "home"}

\* C1: with no override and no probe error, Version returns the result of the
\* first directory of the walk (start, parent, ..., root) whose pin file
\* mentions the plugin: found, that directory, that file's versions; no other
\* directory is probed after it, neither an ancestor nor the home directory.
C1_FirstPinHitReturned ==
    (/\ pc = "done"
     /\ ~OverrideSet
     /\ \A i \in 1..Len(probes) : probes[i].err = Nil
     /\ Len(hit) > 0)
    => /\ found
       /\ err = Nil
       /\ versions = [Versions |-> hit[1].versions.Versions,
                      Directory |-> hit[1].dir,
                      Source |-> conf.DefaultToolVersionsFilename]
       /\ LastProbe.phase = "walk"
       /\ LastProbe.dir = hit[1].dir

\* C2: an override ASDF_<UPPERCASE(name)>_VERSION set to a non-empty string
\* wins: found, no error, Source the variable's name, Directory empty,
\* Versions the variable's tokens; no directory is probed, the legacy flag is
\* not queried and no plugin callback is invoked.
C2_EnvOverrideWins ==
    (pc = "done" /\ OverrideSet)
    => /\ found
       /\ err = Nil
       /\ versions.Source =
              <<"A", "S", "D", "F", "_">> \o ToUpper(plugin.Name)
                  \o <<"_", "V", "E", "R", "S", "I", "O", "N">>
       /\ versions.Directory = <<>>
       /\ versions.Versions = parseVersion(Getenv(versions.Source))
       /\ (env[AsdfNodejsVersion] = V16 \o <<" ">> \o V18
              => versions.Versions = <<V16, V18>> /\ versions.Source = AsdfNodejsVersion)
       /\ probes = <<>>
       /\ lastTags = {}

C2_Witness ==
    /\ pc = "done"
    /\ plugin.Name = Nodejs
    /\ env[AsdfNodejsVersion] = V16 \o <<" ">> \o V18
    /\ conf.LegacyVersionFile.value
    /\ plugin.LegacyFilenames.names = <<Nvmrc, NodeVersion>>
    /\ versions.Versions = <<V16, V18>>

\* C3: with no override, when no directory of the walk up to the root yields a
\* version or an error, the home directory is probed exactly once, as the last
\* probe; Version returns that probe's result, and found=false with no error
\* when it has none or when the home directory cannot be determined.
C3_HomeFallback ==
    (/\ pc = "done"
     /\ ~OverrideSet
     /\ \A i \in WalkProbes : ~probes[i].found /\ probes[i].err = Nil)
    => /\ WalkProbes # {}
       /\ PathDir(directory) = directory
       /\ probes[Len(probes) - Cardinality(HomeProbes)].dir = directory
       /\ IF homeDir.err # Nil
          THEN HomeProbes = {} /\ ~found /\ err = Nil
          ELSE /\ HomeProbes = {Len(probes)}
               /\ LastProbe.dir = homeDir.dir
               /\ found = LastProbe.found
               /\ err = LastProbe.err
               /\ (found => versions.Directory = homeDir.dir)
               /\ (~LastProbe.found /\ LastProbe.err = Nil => ~found /\ err = Nil)

C3_Witness ==
    /\ pc = "done"
    /\ ~OverrideSet
    /\ Len(probes) >= 3
    /\ \A i \in WalkProbes : ~probes[i].found /\ probes[i].err = Nil
    /\ HomeProbes = {Len(probes)}
    /\ found
    /\ versions.Directory = homeDir.dir

\* C4: a failing plugin callback (LegacyFilenames, or ParseLegacyVersionFile
\* on the first existing legacy candidate) always makes Version return that
\* error: the resolution stops there and the error is not Nil.
C4_CallbackErrorPropagates ==
    ("namesErr" \in lastTags \/ "legacyParseErr" \in lastTags)
    => /\ pc = "done"
       /\ err \in {"ErrLegacyFilenames", "ErrLegacyParse"}
       /\ ~found

\* C5: an existence check that fails with an error other than "does not
\* exist" always makes Version return that error: the file is not treated as
\* absent and the resolution does not go on.
C5_StatErrorPropagates ==
    "statErr" \in lastTags => pc = "done" /\ err = "ErrPermission"

\* the first candidate the plugin lists that exists in w
FirstExisting(plug, w) ==
    LET names == plug.LegacyFilenames.names
        there == {i \in 1..Len(names) : w.legacy[names[i]].stat = Nil}
    IN  IF there = {} THEN 0 ELSE CHOOSE i \in there : \A k \in there : i <= k

DegenerateLegacy(plug, w) ==
    /\ FirstExisting(plug, w) > 0
    /\ w.legacy[plug.LegacyFilenames.names[FirstExisting(plug, w)]].tokens
           \in {<<>>, << <<>> >>}

NoLegacyFiles(w) ==
    [w EXCEPT !.legacy =
        [f \in LegacyUniverse |-> [stat |-> "ErrNotExist", tokens |-> <<>>, err |-> Nil]]]

Outcome(r) == [versions |-> r.versions, found |-> r.found, err |-> r.err]

\* C10: a directory whose first existing legacy candidate yields no token, or
\* the single token "", reports found=false with no error, and the resolution
\* goes on exactly as for the same directory without legacy files.
C10_DegenerateLegacy ==
    /\ "degenerate" \in lastTags
       => /\ ~LastProbe.found
          /\ LastProbe.err = Nil
          /\ (pc = "ascend" => versions = ZeroToolVersions /\ ~found /\ err = Nil)
    /\ pc \in {"probe", "home"}
       => \A w \in DirWorld :
             DegenerateLegacy(plugin, w)
             => LET dir == IF pc = "home" THEN homeDir.dir ELSE directory
                IN  Outcome(findVersionsInDir(conf, plugin, dir, w))
                    = Outcome(findVersionsInDir(conf, plugin, dir, NoLegacyFiles(w)))

C10_Witness ==
    /\ "degenerate" \in lastTags
    /\ pc = "probe"
    /\ Len(probes) >= 1
    /\ directory = PathDir(LastProbe.dir)

-----------------------------------------------------------------------------
(* Properties of FindBestMatchingVersion *)

IgnoreList(name) == Split(Getenv(name), " ")

InstalledSet == {installed.list[i] : i \in 1..Len(installed.list)}

Greatest(S) == CHOOSE m \in S : \A x \in S : StrCompare(m, x) >= 0

\* C6: FindBestMatchingVersion never fails: every call returns a string, and
\* the empty string when the installed versions cannot be enumerated.
C6_NeverErrors ==
    bpc = "done"
    => /\ best.kind = "return"
       /\ (installed.err # Nil => best.value = <<>>)

MajorMinorOf(version) ==
    LET parts == Split(version, ".")
    IN  Join(SubSeq(parts, 1, Min2(2, Len(parts))), <<".">>)

Qualifying ==
    {v \in InstalledSet :
        \E k \in 1..Len(requested) : HasPrefix(requested[k], MajorMinorOf(v))}

\* C8: when ASDF_IGNORE_PATCH covers the plugin and ASDF_IGNORE_VERSION and
\* ASDF_IGNORE_MINOR do not, the result is the greatest installed version
\* whose major.minor is a textual prefix of a requested version, and the
\* empty string when there is none.
C8_IgnorePatch ==
    (/\ bpc = "done"
     /\ Covers(IgnoreList(AsdfIgnorePatch), plugin.Name)
     /\ ~Covers(IgnoreList(AsdfIgnoreVersion), plugin.Name)
     /\ ~Covers(IgnoreList(AsdfIgnoreMinor), plugin.Name)
     /\ installed.err = Nil)
    => best = Return(IF Qualifying = {} THEN <<>> ELSE Greatest(Qualifying))

\* C9: with none of ASDF_IGNORE_PATCH, ASDF_IGNORE_MINOR, ASDF_IGNORE_VERSION
\* set, the result is the empty string for every plugin name, every installed
\* list and every requested list.
C9_NothingSetReturnsEmpty ==
    (/\ bpc = "done"
     /\ env[AsdfIgnorePatch] = <<>>
     /\ env[AsdfIgnoreMinor] = <<>>
     /\ env[AsdfIgnoreVersion] = <<>>)
    => best = Return(<<>>)

-----------------------------------------------------------------------------
(* Further properties of Version *)

\* C11: every result of Version with found=true carries a non-empty Versions,
\* whatever the source, also for an override whose value is only spaces.
C11_FoundHasVersions ==
    (pc = "done" /\ found) => Len(versions.Versions) > 0

\* C19: Version never returns found=true together with an error, during the
\* walk and for the home probe, whatever the pin-file parser answers.
C19_NoFoundWithError ==
    (pc = "done" /\ err # Nil) => ~found

-----------------------------------------------------------------------------
(* Further properties of FindBestMatchingVersion *)

Returned == bpc = "done" /\ best.kind = "return" /\ best.value # <<>>

RequestedSet == {requested[k] : k \in 1..Len(requested)}

Component(version, n) ==
    LET parts == Split(version, ".")
    IN  IF n <= Len(parts) THEN parts[n] ELSE <<>>

\* C13: when ASDF_IGNORE_PATCH covers the plugin and ASDF_IGNORE_VERSION does
\* not, a version is returned only if its major.minor is a prefix of a
\* requested version, also when ASDF_IGNORE_MINOR covers the plugin too: the
\* major-only test is not applied to a plugin that ASDF_IGNORE_PATCH covers.
\* (Stated for the plugins with a non-empty name.)
C13_PatchBeforeMinor ==
    (/\ Returned
     /\ plugin.Name # <<>>
     /\ Covers(IgnoreList(AsdfIgnorePatch), plugin.Name)
     /\ ~Covers(IgnoreList(AsdfIgnoreVersion), plugin.Name))
    => \E q \in RequestedSet : HasPrefix(q, MajorMinorOf(best.value))

\* C14: a version returned under a relaxation rule agrees with a requested
\* version on whole components: major and minor under ASDF_IGNORE_PATCH
\* alone, major as soon as ASDF_IGNORE_MINOR covers the plugin.
\* (Stated for the plugins with a non-empty name.)
C14_WholeComponents ==
    (/\ Returned
     /\ plugin.Name # <<>>
     /\ ~Covers(IgnoreList(AsdfIgnoreVersion), plugin.Name))
    => \E q \in RequestedSet :
          /\ Component(q, 1) = Component(best.value, 1)
          /\ (~Covers(IgnoreList(AsdfIgnoreMinor), plugin.Name)
                 => Component(q, 2) = Component(best.value, 2))

\* C18: every non-empty string FindBestMatchingVersion returns is one of the
\* installed versions, under any setting of the three variables.
C18_ResultIsInstalled ==
    Returned => installed.err = Nil /\ best.value \in InstalledSet

C18_Witness ==
    /\ Returned
    /\ requested # <<>>
    /\ best.value \notin RequestedSet
    /\ ~Covers(IgnoreList(AsdfIgnoreVersion), plugin.Name)

-----------------------------------------------------------------------------
(* Order of the probes *)

\* C12: a pin-file parser error and a legacy-flag query error end the
\* resolution at once: Version returns that error, probes no further
\* directory, and probes no legacy file after a parser error.
C12_ParserAndFlagErrorsStop ==
    /\ "pinParseErr" \in lastTags
       => /\ pc = "done"
          /\ err = "ErrParse"
          /\ lastTags \cap {"flagQueried", "callback", "legacyStat"} = {}
    /\ "flagErr" \in lastTags
       => /\ pc = "done"
          /\ err = "ErrConfig"
          /\ ~found
          /\ lastTags \cap {"callback", "legacyStat"} = {}

C12_Witness ==
    /\ pc = "done"
    /\ "pinParseErr" \in lastTags
    /\ Len(probes) >= 2
    /\ conf.LegacyVersionFile.value
    /\ err = "ErrParse"

\* C15: in one directory the pin file goes first: when it exists and mentions
\* the plugin its versions are the result, and the flag is not queried nor a
\* legacy file probed; legacy files and plugin callbacks are used only after
\* the pin file was not found by the existence check or did not mention the
\* plugin, and the flag answered enabled; never when the flag is disabled.
C15_PinBeforeLegacy ==
    /\ "pinHit" \in lastTags
       => /\ lastTags \cap {"flagQueried", "callback", "legacyStat"} = {}
          /\ LastProbe.found
          /\ versions = [Versions |-> <<V18>>, Directory |-> LastProbe.dir,
                         Source |-> conf.DefaultToolVersionsFilename]
    /\ lastTags \cap {"callback", "legacyStat"} # {}
       => /\ lastTags \cap {"pinAbsent", "pinSilent"} # {}
          /\ "flagQueried" \in lastTags
          /\ conf.LegacyVersionFile.err = Nil
          /\ conf.LegacyVersionFile.value
    /\ ~conf.LegacyVersionFile.value => lastTags \cap {"callback", "legacyStat"} = {}

C15_Witness ==
    /\ "pinHit" \in lastTags
    /\ pc = "done"
    /\ conf.LegacyVersionFile.value
    /\ plugin.LegacyFilenames.names = <<Nvmrc, NodeVersion>>
    /\ found

\* the calls the legacy prober is to make: the existence checks in the
\* plugin's order up to the first candidate found, and one extraction on it
ExpectedLegacyCalls(plug, w) ==
    LET names == plug.LegacyFilenames.names
        k == FirstExisting(plug, w)
    IN  <<Call("LegacyFilenames", <<>>)>>
        \o [i \in 1..(IF k = 0 THEN Len(names) ELSE k) |-> Call("Stat", names[i])]
        \o (IF k = 0 THEN <<>> ELSE <<Call("ParseLegacyVersionFile", names[k])>>)

AnyPin == [stat |-> "ErrNotExist", versions |-> <<>>, found |-> FALSE, err |-> Nil]

\* C16: the legacy prober checks the candidates in the plugin's order and runs
\* the extractor on one file at most, the first candidate found; later ones
\* are neither checked nor parsed, also after a degenerate result or an
\* error; a found result names that file and that directory.
C16_FirstExistingOnly ==
    /\ (pc \in {"probe", "home"} /\ plugin.LegacyFilenames.err = Nil)
       => \A lg \in [LegacyUniverse -> LegacyStates] :
             LET w == [pin |-> AnyPin, legacy |-> lg]
                 dir == IF pc = "home" THEN homeDir.dir ELSE directory
                 l == findVersionsInLegacyFile(plugin, dir, w)
                 k == FirstExisting(plugin, w)
             IN  /\ l.calls = ExpectedLegacyCalls(plugin, w)
                 /\ l.found
                    => /\ k > 0
                       /\ l.versions.Source = plugin.LegacyFilenames.names[k]
                       /\ l.versions.Directory = dir
                       /\ l.versions.Versions = lg[plugin.LegacyFilenames.names[k]].tokens
    /\ (found /\ "callback" \in lastTags)
       => /\ versions.Directory = LastProbe.dir
          /\ Contains(plugin.LegacyFilenames.names, versions.Source)

C16_Witness ==
    /\ pc = "done"
    /\ found
    /\ plugin.LegacyFilenames.names = <<Nvmrc, NodeVersion>>
    /\ versions.Source = NodeVersion
    /\ versions.Directory = LastProbe.dir
    /\ Len(probes) >= 2

\* the walk so far: each probe is of the strict parent of the one before, no
\* directory is probed twice, and nothing is probed by the walk after a
\* directory that is its own parent
WalkShape ==
    /\ \A i \in WalkProbes :
          /\ i > 1 => /\ (i - 1) \in WalkProbes
                      /\ probes[i].dir = PathDir(probes[i - 1].dir)
                      /\ probes[i].dir # probes[i - 1].dir
          /\ \A j \in WalkProbes : probes[i].dir = probes[j].dir => i = j
          /\ PathDir(probes[i].dir) = probes[i].dir => \A j \in WalkProbes : j <= i
    /\ Cardinality(HomeProbes) <= 1
    /\ pc = "probe" => \A i \in WalkProbes : probes[i].dir # directory

\* the number of steps from a directory up to the one that is its own parent
RECURSIVE Height(_)
Height(dir) ==
    LET parent == PathDir(dir)
    IN  IF parent = dir THEN 0 ELSE 1 + Height(parent)

\* what is left to do: decreases with every step
Measure(at, dir) ==
    IF at = "done" THEN 0
    ELSE IF at = "home" THEN 1
    ELSE IF at = "ascend" THEN 2 + 2 * Height(dir)
    ELSE IF at = "probe" THEN 3 + 2 * Height(dir)
    ELSE 4 + 2 * Height(dir)

\* until Version has returned, a next step is possible: the probes take any
\* answer of the directory's files, and after a probe the loop either goes to
\* the parent or has reached the root
Progress ==
    /\ pc \in {"env", "probe", "ascend", "home", "done"}
    /\ pc = "ascend" => ENABLED (Ascend \/ RootReached)
    /\ pc = "home" => PathDir(directory) = directory

\* C17: Version terminates: each iteration returns or replaces the directory
\* by its strict parent, so every step brings the end nearer; the i-th probe
\* of the walk is i-1 steps above the start, no directory is probed twice,
\* and the walk ends at the latest at the directory that is its own parent,
\* followed by one home probe at most.
C17_Terminates ==
    /\ [](WalkShape /\ Progress)
    /\ [](\A i \in WalkProbes : Height(probes[i].dir) + (i - 1) = Height(probes[1].dir))
    /\ [][Measure(pc', directory') < Measure(pc, directory)]_vars

C17_Witness ==
    /\ pc = "done"
    /\ Cardinality(WalkProbes) = MaxDepth + 1
    /\ Len(probes) = MaxDepth + 2

=============================================================================
